---------------------------- MODULE Spec2Model ----------------------------
(***************************************************************************)
(* A model of adafruit_drv2605.py: the DRV2605 haptic motor driver.        *)
(*                                                                         *)
(* The chip is a register file reached through _read_u8 / _write_u8, which *)
(* marshal every bus transaction through the class-level two-byte _BUFFER. *)
(* The controller (DRV2605), the slot codec (Effect, Pause) and the        *)
(* sequence accessor (_DRV2605_Sequence) are modelled method by method.    *)
(*                                                                         *)
(* Integers stand for Python ints.  A Pause duration is a float in the     *)
(* source; here it is a whole number of ticks, TicksPerCs ticks to the     *)
(* centisecond, so that round(duration * 100.0) has something to round.    *)
(***************************************************************************)
EXTENDS Integers, Sequences, FiniteSets, TLC

(***************************************************************************)
(* Register addresses and user-facing constants.                           *)
(***************************************************************************)
_DRV2605_REG_STATUS == 0
_DRV2605_REG_MODE == 1
_DRV2605_REG_RTPIN == 2
_DRV2605_REG_LIBRARY == 3
_DRV2605_REG_WAVESEQ1 == 4
_DRV2605_REG_WAVESEQ2 == 5
_DRV2605_REG_WAVESEQ8 == 11
_DRV2605_REG_GO == 12
_DRV2605_REG_OVERDRIVE == 13
_DRV2605_REG_SUSTAINPOS == 14
_DRV2605_REG_SUSTAINNEG == 15
_DRV2605_REG_BREAK == 16
_DRV2605_REG_AUDIOMAX == 19
_DRV2605_REG_FEEDBACK == 26
_DRV2605_REG_CONTROL3 == 29
_DRV2605_REG_LRARESON == 34
MODE_INTTRIG == 0
LIBRARY_TS2200A == 1

\* Every address of the chip's register map, 0x00 .. 0x22.
Addrs == _DRV2605_REG_STATUS .. _DRV2605_REG_LRARESON
\* The eight waveform-sequence registers, 0x04 .. 0x0B.
SlotAddrs == _DRV2605_REG_WAVESEQ1 .. _DRV2605_REG_WAVESEQ8
Byte == 0 .. 255

(***************************************************************************)
(* Python's integer bit operators.                                         *)
(***************************************************************************)
RECURSIVE BitAnd(_, _)
\* a & b for a, b >= 0.
BitAnd(a, b) ==
    IF a = 0 \/ b = 0 THEN 0
    ELSE (a % 2) * (b % 2) + 2 * BitAnd(a \div 2, b \div 2)

RECURSIVE BitOr(_, _)
\* a | b for a, b >= 0.
BitOr(a, b) ==
    IF a = 0 THEN b
    ELSE IF b = 0 THEN a
    ELSE (IF a % 2 = 1 \/ b % 2 = 1 THEN 1 ELSE 0) + 2 * BitOr(a \div 2, b \div 2)

\* v & mask for a mask in 0 .. 0xFF and any int v: a negative v is an
\* unbounded two's complement number, whose low eight bits are v mod 256.
And(v, mask) == BitAnd(v % 256, mask)

\* v >> n for v >= 0.
ShiftRight(v, n) == v \div (2 ^ n)

(***************************************************************************)
(* Bounds of the model.                                                    *)
(***************************************************************************)
\* Ticks per centisecond: the resolution of the durations tried.
TicksPerCs == 3
\* Calls of _read_u8 and _write_u8 each thread of the threaded program makes.
MaxCalls == 2

(***************************************************************************)
(* State.                                                                  *)
(***************************************************************************)
VARIABLES
    regs,     \* the chip's registers: [Addrs -> Byte]
    BUFFER,   \* DRV2605._BUFFER, the class-level bytearray(2)
    drv,      \* the controller object: "absent", "ready" or "failed"
    obj,      \* the Effect or Pause object the application holds
    ret,      \* the last call: what was called, with what, and how it ended
    wlog,     \* the register writes the last call put on the bus
    chips,    \* two chips' registers, one per DRV2605 instance
    lock,     \* who holds each I2C bus's lock
    thr       \* the threads driving the two instances

vars == <<regs, BUFFER, drv, obj, ret, wlog, chips, lock, thr>>
concvars == <<chips, lock, thr>>
seqvars == <<regs, drv, obj, ret, wlog>>

(***************************************************************************)
(* Values passed to and returned by calls: an int, an Effect (v is its     *)
(* _effect_id), a Pause (v is its _duration byte) or nothing.              *)
(***************************************************************************)
None == [kind |-> "none", v |-> 0]
IntVal(n) == [kind |-> "int", v |-> n]
EffectObj(raw) == [kind |-> "Effect", v |-> raw]
PauseObj(raw) == [kind |-> "Pause", v |-> raw]

(***************************************************************************)
(* The register transport.  A machine is the chip's registers, _BUFFER and *)
(* the log of the writes issued so far by the running call.                *)
(***************************************************************************)
Machine(rg, buf) == [regs |-> rg, buf |-> buf, log |-> <<>>]

\* DRV2605._read_u8: the address goes into _BUFFER[0], the transaction
\* writes that byte out and reads the register's byte back into _BUFFER[0].
_read_u8(m, address) ==
    LET out == [m.buf EXCEPT ![0] = And(address, 255)]
    IN  [m EXCEPT !.buf = [out EXCEPT ![0] = m.regs[out[0]]]]

\* What a _read_u8 that left machine m returns: _BUFFER[0].
ReadValue(m) == m.buf[0]

\* DRV2605._write_u8: address and value go into _BUFFER, which is written
\* out in one transaction; the chip stores the value at the address.
_write_u8(m, address, val) ==
    LET out == [m.buf EXCEPT ![0] = And(address, 255), ![1] = And(val, 255)]
    IN  [regs |-> [m.regs EXCEPT ![out[0]] = out[1]],
         buf  |-> out,
         log  |-> Append(m.log, <<out[0], out[1]>>)]

(***************************************************************************)
(* How a call ends: the machine it leaves, the exception it raised (or     *)
(* "none") and the value it returned.                                      *)
(***************************************************************************)
Return(m, value) == [m |-> m, exc |-> "none", value |-> value]
Raise(m, exc) == [m |-> m, exc |-> exc, value |-> None]

(***************************************************************************)
(* DRV2605: the controller's methods, each from a machine to how it ends.  *)
(***************************************************************************)
\* mode (getter)
mode_get(m) ==
    LET r == _read_u8(m, _DRV2605_REG_MODE)
    IN  Return(r, IntVal(ReadValue(r)))

\* mode (setter)
mode_set(m, val) ==
    IF ~(0 <= val /\ val <= 7) THEN Raise(m, "ValueError")
    ELSE Return(_write_u8(m, _DRV2605_REG_MODE, val), None)

\* library (getter) masking two bits instead of three.
library_get_mask3(m) ==
    LET r == _read_u8(m, _DRV2605_REG_LIBRARY)
    IN  Return(r, IntVal(And(ReadValue(r), 3)))

\* library (getter)
library_get(m) ==
    LET r == _read_u8(m, _DRV2605_REG_LIBRARY)
    IN  Return(r, IntVal(And(ReadValue(r), 7)))

\* library (setter)
library_set(m, val) ==
    IF ~(0 <= val /\ val <= 6) THEN Raise(m, "ValueError")
    ELSE Return(_write_u8(m, _DRV2605_REG_LIBRARY, val), None)

\* realtime_value (getter)
realtime_value_get(m) ==
    LET r == _read_u8(m, _DRV2605_REG_RTPIN)
    IN  Return(r, IntVal(ReadValue(r)))

\* realtime_value (setter) taking unsigned bytes only.
realtime_value_set_unsigned(m, val) ==
    IF ~(0 <= val /\ val <= 255) THEN Raise(m, "ValueError")
    ELSE Return(_write_u8(m, _DRV2605_REG_RTPIN, val), None)

\* realtime_value (setter)
realtime_value_set(m, val) ==
    IF ~(-127 <= val /\ val <= 255) THEN Raise(m, "ValueError")
    ELSE Return(_write_u8(m, _DRV2605_REG_RTPIN, val), None)

\* set_waveform(effect_id, slot) with the slot left unchecked.
set_waveform_any_slot(m, effect_id, slot) ==
    IF ~(0 <= effect_id /\ effect_id <= 123) THEN Raise(m, "ValueError")
    ELSE Return(_write_u8(m, _DRV2605_REG_WAVESEQ1 + slot, effect_id), None)

\* set_waveform(effect_id, slot)
set_waveform(m, effect_id, slot) ==
    IF ~(0 <= effect_id /\ effect_id <= 123) THEN Raise(m, "ValueError")
    ELSE IF ~(0 <= slot /\ slot <= 7) THEN Raise(m, "ValueError")
    ELSE Return(_write_u8(m, _DRV2605_REG_WAVESEQ1 + slot, effect_id), None)

\* use_ERM with the motor-type bit set instead of cleared.
use_ERM_sets_bit(m) ==
    LET r == _read_u8(m, _DRV2605_REG_FEEDBACK)
        feedback == ReadValue(r)
    IN  Return(_write_u8(r, _DRV2605_REG_FEEDBACK, BitOr(feedback, 128)), None)

\* use_ERM()
use_ERM(m) ==
    LET r == _read_u8(m, _DRV2605_REG_FEEDBACK)
        feedback == ReadValue(r)
    IN  Return(_write_u8(r, _DRV2605_REG_FEEDBACK, And(feedback, 127)), None)

\* use_LRM writing the motor-type bit alone, the other bits dropped.
use_LRM_overwrites(m) ==
    LET r == _read_u8(m, _DRV2605_REG_FEEDBACK)
    IN  Return(_write_u8(r, _DRV2605_REG_FEEDBACK, 128), None)

\* use_LRM()
use_LRM(m) ==
    LET r == _read_u8(m, _DRV2605_REG_FEEDBACK)
        feedback == ReadValue(r)
    IN  Return(_write_u8(r, _DRV2605_REG_FEEDBACK, BitOr(feedback, 128)), None)

\* play()
play(m) == Return(_write_u8(m, _DRV2605_REG_GO, 1), None)

\* stop()
stop(m) == Return(_write_u8(m, _DRV2605_REG_GO, 0), None)

\* The chip ID taken one bit too low.
device_id_shift4(status) == And(ShiftRight(status, 4), 7)

\* The chip ID of a status byte, as __init__ extracts it.
device_id(status) == And(ShiftRight(status, 5), 7)

\* The constructor's register writes that follow the chip ID check.
Configure(m) ==
    LET w1 == _write_u8(m, _DRV2605_REG_MODE, 0)
        w2 == _write_u8(w1, _DRV2605_REG_RTPIN, 0)
        w3 == _write_u8(w2, _DRV2605_REG_WAVESEQ1, 1)
        w4 == _write_u8(w3, _DRV2605_REG_WAVESEQ2, 0)
        w5 == _write_u8(w4, _DRV2605_REG_OVERDRIVE, 0)
        w6 == _write_u8(w5, _DRV2605_REG_SUSTAINPOS, 0)
        w7 == _write_u8(w6, _DRV2605_REG_SUSTAINNEG, 0)
        w8 == _write_u8(w7, _DRV2605_REG_BREAK, 0)
    IN  _write_u8(w8, _DRV2605_REG_AUDIOMAX, 100)

\* "turn on ERM_OPEN_LOOP": control-3 read, bit 5 set, written back.
OpenLoop(m) ==
    LET r == _read_u8(m, _DRV2605_REG_CONTROL3)
        control3 == ReadValue(r)
    IN  _write_u8(r, _DRV2605_REG_CONTROL3, BitOr(control3, 32))

\* DRV2605.__init__
DRV2605_init(m) ==
    LET r      == _read_u8(m, _DRV2605_REG_STATUS)
        status == ReadValue(r)
    IN  IF device_id(status) \notin {3, 7} THEN Raise(r, "RuntimeError")
        ELSE LET erm == use_ERM(Configure(r))
                 md  == mode_set(OpenLoop(erm.m), MODE_INTTRIG)
             IN  IF md.exc # "none" THEN md
                 ELSE library_set(md.m, LIBRARY_TS2200A)

(***************************************************************************)
(* The slot codec: Effect and Pause.                                       *)
(***************************************************************************)
\* What a method of an object leaves: the object and the exception raised.
Kept(o, exc) == [obj |-> o, exc |-> exc]

\* Effect.id (setter) taking every byte with bit 7 clear.
Effect_id_set_7bit(self, effect_id) ==
    IF ~(0 <= effect_id /\ effect_id <= 127) THEN Kept(self, "ValueError")
    ELSE Kept(EffectObj(effect_id), "none")

\* Effect.id (setter)
Effect_id_set(self, effect_id) ==
    IF ~(0 <= effect_id /\ effect_id <= 123) THEN Kept(self, "ValueError")
    ELSE Kept(EffectObj(effect_id), "none")

\* Effect.__init__: no object comes of a constructor that raises.
Effect_init(effect_id) ==
    LET r == Effect_id_set(EffectObj(0), effect_id)
    IN  IF r.exc # "none" THEN Kept(None, r.exc) ELSE r

\* Effect.id (getter)
Effect_id(self) == self.v

\* round(n / d) for n >= 0, d > 0.  Python rounds the float product
\* duration * 100.0, and a tie of the exact quotient need not be a tie of
\* the float (nor land on the same side twice), so tieUp says which way a
\* tie went.
Round(n, d, tieUp) ==
    LET q == n \div d
        r == n % d
    IN  IF 2 * r < d THEN q
        ELSE IF 2 * r > d THEN q + 1
        ELSE IF tieUp THEN q + 1 ELSE q

\* Pause.duration (setter); duration in ticks.
Pause_duration_set(self, duration, tieUp) ==
    IF ~(0 <= duration /\ duration <= 127 * TicksPerCs)
    THEN Kept(self, "ValueError")
    ELSE Kept(PauseObj(BitOr(128, Round(duration, TicksPerCs, tieUp))), "none")

\* Pause.__init__
Pause_init(duration, tieUp) ==
    LET r == Pause_duration_set(PauseObj(128), duration, tieUp)
    IN  IF r.exc # "none" THEN Kept(None, r.exc) ELSE r

\* Pause.duration (getter), in ticks: (self._duration & 0x7F) / 100.0 seconds.
Pause_duration(self) == And(self.v, 127) * TicksPerCs

\* raw_value of an Effect or a Pause
raw_value(self) == self.v

(***************************************************************************)
(* _DRV2605_Sequence: the indexable waveform slots.                        *)
(***************************************************************************)
\* __setitem__(slot, effect)
Sequence_setitem(m, slot, effect) ==
    IF ~(0 <= slot /\ slot <= 7) THEN Raise(m, "IndexError")
    ELSE IF effect.kind \notin {"Effect", "Pause"} THEN Raise(m, "TypeError")
    ELSE Return(_write_u8(m, _DRV2605_REG_WAVESEQ1 + slot, raw_value(effect)), None)

\* __getitem__(slot) decoding a pause from the whole byte, flag bit included.
Sequence_getitem_nomask(m, slot) ==
    IF ~(0 <= slot /\ slot <= 7) THEN Raise(m, "IndexError")
    ELSE LET r == _read_u8(m, _DRV2605_REG_WAVESEQ1 + slot)
             slot_contents == ReadValue(r)
             made == IF And(slot_contents, 128) # 0
                     THEN Pause_init(slot_contents * TicksPerCs, FALSE)
                     ELSE Effect_init(slot_contents)
         IN  IF made.exc # "none" THEN Raise(r, made.exc)
             ELSE Return(r, made.obj)

\* __getitem__(slot).  (slot_contents & 0x7F) / 100.0 is a whole number of
\* centiseconds, which Pause's rounding leaves as it is.
Sequence_getitem(m, slot) ==
    IF ~(0 <= slot /\ slot <= 7) THEN Raise(m, "IndexError")
    ELSE LET r == _read_u8(m, _DRV2605_REG_WAVESEQ1 + slot)
             slot_contents == ReadValue(r)
             made == IF And(slot_contents, 128) # 0
                     THEN Pause_init(And(slot_contents, 127) * TicksPerCs, FALSE)
                     ELSE Effect_init(slot_contents)
         IN  IF made.exc # "none" THEN Raise(r, made.exc)
             ELSE Return(r, made.obj)

(***************************************************************************)
(* Actions of the single-threaded program: one per call.                   *)
(***************************************************************************)
\* The record of a call that ended as r.
Called(op, slot, arg, r) ==
    [op |-> op, slot |-> slot, arg |-> arg, exc |-> r.exc, value |-> r.value]

\* A call on the controller that ended as r: what it leaves behind.
Call(op, slot, arg, r) ==
    /\ regs' = r.m.regs
    /\ BUFFER' = r.m.buf
    /\ wlog' = r.m.log
    /\ ret' = Called(op, slot, arg, r)
    /\ UNCHANGED concvars

\* A constructor or setter of an Effect or Pause that ended as k.
ObjCall(op, arg, k) ==
    /\ obj' = k.obj
    /\ ret' = [op |-> op, slot |-> 0, arg |-> arg, exc |-> k.exc, value |-> None]
    /\ wlog' = <<>>
    /\ UNCHANGED <<regs, BUFFER, drv, concvars>>

\* drv = DRV2605(i2c)
Construct ==
    LET r == DRV2605_init(Machine(regs, BUFFER))
    IN  /\ Call("__init__", 0, None, r)
        /\ drv' = IF r.exc = "none" THEN "ready" ELSE "failed"
        /\ UNCHANGED obj

\* drv.mode = v
SetMode(v) ==
    /\ drv = "ready"
    /\ Call("mode=", 0, IntVal(v), mode_set(Machine(regs, BUFFER), v))
    /\ UNCHANGED <<drv, obj>>

\* drv.mode
GetMode ==
    /\ drv = "ready"
    /\ Call("mode", 0, None, mode_get(Machine(regs, BUFFER)))
    /\ UNCHANGED <<drv, obj>>

\* drv.library = v
SetLibrary(v) ==
    /\ drv = "ready"
    /\ Call("library=", 0, IntVal(v), library_set(Machine(regs, BUFFER), v))
    /\ UNCHANGED <<drv, obj>>

\* drv.library
GetLibrary ==
    /\ drv = "ready"
    /\ Call("library", 0, None, library_get(Machine(regs, BUFFER)))
    /\ UNCHANGED <<drv, obj>>

\* drv.realtime_value = v
SetRealtime(v) ==
    /\ drv = "ready"
    /\ Call("realtime_value=", 0, IntVal(v),
            realtime_value_set(Machine(regs, BUFFER), v))
    /\ UNCHANGED <<drv, obj>>

\* drv.realtime_value
GetRealtime ==
    /\ drv = "ready"
    /\ Call("realtime_value", 0, None, realtime_value_get(Machine(regs, BUFFER)))
    /\ UNCHANGED <<drv, obj>>

\* drv.set_waveform(effect_id, slot)
SetWaveform(effect_id, slot) ==
    /\ drv = "ready"
    /\ Call("set_waveform", slot, IntVal(effect_id),
            set_waveform(Machine(regs, BUFFER), effect_id, slot))
    /\ UNCHANGED <<drv, obj>>

\* drv.use_ERM()
UseERM ==
    /\ drv = "ready"
    /\ Call("use_ERM", 0, None, use_ERM(Machine(regs, BUFFER)))
    /\ UNCHANGED <<drv, obj>>

\* drv.use_LRM()
UseLRM ==
    /\ drv = "ready"
    /\ Call("use_LRM", 0, None, use_LRM(Machine(regs, BUFFER)))
    /\ UNCHANGED <<drv, obj>>

\* drv.play()
Play ==
    /\ drv = "ready"
    /\ Call("play", 0, None, play(Machine(regs, BUFFER)))
    /\ UNCHANGED <<drv, obj>>

\* drv.stop()
Stop ==
    /\ drv = "ready"
    /\ Call("stop", 0, None, stop(Machine(regs, BUFFER)))
    /\ UNCHANGED <<drv, obj>>

\* obj = Effect(effect_id): a constructor that raises binds nothing.
NewEffect(effect_id) ==
    LET k == Effect_init(effect_id)
    IN  ObjCall("Effect", IntVal(effect_id),
                IF k.exc = "none" THEN k ELSE Kept(obj, k.exc))

\* obj.id = effect_id, obj an Effect
SetId(effect_id) ==
    /\ obj.kind = "Effect"
    /\ ObjCall("id=", IntVal(effect_id), Effect_id_set(obj, effect_id))

\* obj = Pause(duration)
NewPause(duration, tieUp) ==
    LET k == Pause_init(duration, tieUp)
    IN  ObjCall("Pause", IntVal(duration),
                IF k.exc = "none" THEN k ELSE Kept(obj, k.exc))

\* obj.duration = duration, obj a Pause
SetDuration(duration, tieUp) ==
    /\ obj.kind = "Pause"
    /\ ObjCall("duration=", IntVal(duration),
               Pause_duration_set(obj, duration, tieUp))

\* drv.sequence[slot] = effect
SeqSet(slot, effect) ==
    /\ drv = "ready"
    /\ Call("sequence[]=", slot, effect,
            Sequence_setitem(Machine(regs, BUFFER), slot, effect))
    /\ UNCHANGED <<drv, obj>>

\* drv.sequence[slot]
SeqGet(slot) ==
    /\ drv = "ready"
    /\ Call("sequence[]", slot, None,
            Sequence_getitem(Machine(regs, BUFFER), slot))
    /\ UNCHANGED <<drv, obj>>

(***************************************************************************)
(* Initial states.  The chip's registers hold what power-on or an earlier  *)
(* program left in them; no controller has been constructed.               *)
(***************************************************************************)
\* Status bytes: every chip ID with the low five bits clear, and with some set.
StatusBytes == {32 * id : id \in 0 .. 7} \cup {31, 127, 191, 255}
\* Status bytes of the two supported chips.
GoodStatus == {96, 224}

NoThreads ==
    /\ chips = <<>>
    /\ lock = <<>>
    /\ thr = <<>>

\* Registers all holding fill, but for status, feedback, control-3 and one slot.
Registers(status, fill, feedback, control3, slot, b) ==
    [a \in Addrs |->
        IF a = _DRV2605_REG_STATUS THEN status
        ELSE IF a = _DRV2605_REG_FEEDBACK THEN feedback
        ELSE IF a = _DRV2605_REG_CONTROL3 THEN control3
        ELSE IF a = _DRV2605_REG_WAVESEQ1 + slot THEN b
        ELSE fill]

Fresh ==
    /\ BUFFER = [i \in 0 .. 1 |-> 0]
    /\ drv = "absent"
    /\ obj = None
    /\ ret = [op |-> "none", slot |-> 0, arg |-> None, exc |-> "none", value |-> None]
    /\ wlog = <<>>
    /\ NoThreads

(***************************************************************************)
(* SpecInit: construction, from many register contents.                    *)
(***************************************************************************)
InitWide ==
    /\ \E status \in StatusBytes, fill \in {0, 125, 255},
          feedback \in {0, 54, 128, 182, 255}, control3 \in {0, 32, 160, 223, 255} :
          regs = Registers(status, fill, feedback, control3, 0, fill)
    /\ Fresh

NextInit == Construct

SpecInit == InitWide /\ [][NextInit]_vars

\* Bits 5-7 of a status byte.
IdBits(status) == (status \div 32) % 8
\* A byte with bit n (of value 2^n = w) cleared, and set.
Cleared(b, w) == IF (b \div w) % 2 = 1 THEN b - w ELSE b
WithBit(b, w) == IF (b \div w) % 2 = 1 THEN b ELSE b + w

\* C1: when bits 5-7 of the status register are 3 or 7, constructing DRV2605
\* succeeds and leaves mode, real-time input, slot 1, overdrive, sustain+,
\* sustain- and break at 0, slot 0 at 1, audio-max at 0x64, library at 1,
\* feedback at its initial value with bit 7 cleared and control-3 at its
\* initial value with bit 5 set.
C1_ConstructInitialises ==
    [][(ret'.op = "__init__" /\ IdBits(regs[_DRV2605_REG_STATUS]) \in {3, 7}) =>
         /\ ret'.exc = "none"
         /\ drv' = "ready"
         /\ regs'[_DRV2605_REG_MODE] = 0
         /\ regs'[_DRV2605_REG_RTPIN] = 0
         /\ regs'[_DRV2605_REG_WAVESEQ1] = 1
         /\ regs'[_DRV2605_REG_WAVESEQ2] = 0
         /\ regs'[_DRV2605_REG_OVERDRIVE] = 0
         /\ regs'[_DRV2605_REG_SUSTAINPOS] = 0
         /\ regs'[_DRV2605_REG_SUSTAINNEG] = 0
         /\ regs'[_DRV2605_REG_BREAK] = 0
         /\ regs'[_DRV2605_REG_AUDIOMAX] = 100
         /\ regs'[_DRV2605_REG_LIBRARY] = 1
         /\ regs'[_DRV2605_REG_FEEDBACK] = Cleared(regs[_DRV2605_REG_FEEDBACK], 128)
         /\ regs'[_DRV2605_REG_CONTROL3] = WithBit(regs[_DRV2605_REG_CONTROL3], 32)
      ]_vars

\* C1's case: a chip of ID 7 whose feedback register had bit 7 set and whose
\* control-3 had bit 5 clear has been constructed on.
C1_Witness ==
    /\ ret.op = "__init__" /\ ret.exc = "none" /\ drv = "ready"
    /\ regs[_DRV2605_REG_STATUS] = 255
    /\ regs[_DRV2605_REG_FEEDBACK] = 54
    /\ regs[_DRV2605_REG_CONTROL3] = 160
    /\ regs[_DRV2605_REG_GO] = 125
    /\ Len(wlog) = 13

\* C2: when bits 5-7 of the status register are neither 3 nor 7, constructing
\* DRV2605 fails with the device-not-found error, issues no register write
\* and leaves every chip register as it was.
C2_NoDeviceNoWrite ==
    [][(ret'.op = "__init__" /\ IdBits(regs[_DRV2605_REG_STATUS]) \notin {3, 7}) =>
         /\ ret'.exc = "RuntimeError"
         /\ drv' = "failed"
         /\ wlog' = <<>>
         /\ regs' = regs
      ]_vars

\* C2's case: construction has failed on a chip of ID 5.
C2_Witness ==
    /\ ret.op = "__init__" /\ ret.exc = "RuntimeError" /\ drv = "failed"
    /\ regs[_DRV2605_REG_STATUS] = 191
    /\ regs[_DRV2605_REG_MODE] = 125

(***************************************************************************)
(* SpecModeLib: the mode and library properties.                           *)
(***************************************************************************)
ModeInputs == -1 .. 8
LibraryInputs == -1 .. 7

InitModeLib ==
    /\ \E status \in GoodStatus \cup {160}, fill \in {0, 255} :
          regs = Registers(status, fill, fill, fill, 0, fill)
    /\ Fresh

NextModeLib ==
    \/ Construct
    \/ \E v \in ModeInputs : SetMode(v)
    \/ GetMode
    \/ \E v \in LibraryInputs : SetLibrary(v)
    \/ GetLibrary

SpecModeLib == InitModeLib /\ [][NextModeLib]_vars

\* C6: setting mode to v succeeds exactly when v is in 0 .. 7 (so 8 and -1
\* fail) and the get that follows a successful set returns v; setting library
\* to v succeeds exactly when v is in 0 .. 6 (so 7 fails) and the get that
\* follows a successful set returns v.
C6_ModeLibraryRoundTrip ==
    [][/\ ret'.op = "mode=" =>
            IF ret'.arg.v \in 0 .. 7 THEN ret'.exc = "none"
                                     ELSE ret'.exc = "ValueError"
       /\ (ret.op = "mode=" /\ ret.exc = "none" /\ ret'.op = "mode") =>
            (ret'.exc = "none" /\ ret'.value = ret.arg)
       /\ ret'.op = "library=" =>
            IF ret'.arg.v \in 0 .. 6 THEN ret'.exc = "none"
                                     ELSE ret'.exc = "ValueError"
       /\ (ret.op = "library=" /\ ret.exc = "none" /\ ret'.op = "library") =>
            (ret'.exc = "none" /\ ret'.value = ret.arg)
      ]_vars

\* C6's case: with mode set to 7, library set to 6 has just been read back.
C6_Witness ==
    /\ drv = "ready"
    /\ regs[_DRV2605_REG_MODE] = 7
    /\ regs[_DRV2605_REG_LIBRARY] = 6
    /\ ret.op = "library" /\ ret.value = IntVal(6)

(***************************************************************************)
(* SpecRealtime: the realtime_value property.                              *)
(***************************************************************************)
RealtimeInputs == (-128 .. 256) \cup {-1000, 1000}

InitFilled ==
    /\ \E status \in {96, 160} :
          regs = Registers(status, 255, 255, 255, 0, 255)
    /\ Fresh

NextRealtime ==
    \/ Construct
    \/ \E v \in RealtimeInputs : SetRealtime(v)
    \/ GetRealtime

SpecRealtime == InitFilled /\ [][NextRealtime]_vars

\* C7: setting realtime_value to v in -127 .. 255 succeeds and writes v mod 256
\* to register 0x02, and the get that follows returns v mod 256; setting any
\* other v fails and writes nothing.
C7_RealtimeLowByte ==
    [][/\ (ret'.op = "realtime_value=" /\ ret'.arg.v \in -127 .. 255) =>
            /\ ret'.exc = "none"
            /\ wlog' = << <<_DRV2605_REG_RTPIN, ret'.arg.v % 256>> >>
            /\ regs' = [regs EXCEPT ![_DRV2605_REG_RTPIN] = ret'.arg.v % 256]
       /\ (ret'.op = "realtime_value=" /\ ret'.arg.v \notin -127 .. 255) =>
            /\ ret'.exc = "ValueError"
            /\ wlog' = <<>>
            /\ regs' = regs
       /\ (ret.op = "realtime_value=" /\ ret.exc = "none"
             /\ ret'.op = "realtime_value") =>
            (ret'.exc = "none" /\ ret'.value = IntVal(ret.arg.v % 256))
      ]_vars

\* C7's case: realtime_value = -1 has left 255 in register 0x02.
C7_Witness ==
    /\ ret.op = "realtime_value=" /\ ret.arg = IntVal(-1) /\ ret.exc = "none"
    /\ regs[_DRV2605_REG_RTPIN] = 255

(***************************************************************************)
(* SpecMotor: the motor type, from every feedback byte.                    *)
(***************************************************************************)
InitMotor ==
    /\ \E status \in GoodStatus, feedback \in Byte :
          regs = Registers(status, 0, feedback, 0, 0, 0)
    /\ Fresh

NextMotor ==
    \/ Construct
    \/ UseERM
    \/ UseLRM
    \/ Play
    \/ Stop

SpecMotor == InitMotor /\ [][NextMotor]_vars

\* C8: use_ERM leaves the feedback register at its value with bit 7 cleared,
\* use_LRM at its value with bit 7 set; the register's bits 0-6 and every
\* other register are as they were.
C8_MotorTypeBitOnly ==
    [][/\ ret'.op = "use_ERM" =>
            /\ ret'.exc = "none"
            /\ regs' = [regs EXCEPT ![_DRV2605_REG_FEEDBACK] = Cleared(@, 128)]
       /\ ret'.op = "use_LRM" =>
            /\ ret'.exc = "none"
            /\ regs' = [regs EXCEPT ![_DRV2605_REG_FEEDBACK] = WithBit(@, 128)]
      ]_vars

\* C8's case: use_LRM has turned a feedback byte 0x36 into 0xB6.
C8_Witness ==
    /\ ret.op = "use_LRM"
    /\ regs[_DRV2605_REG_FEEDBACK] = 182

(***************************************************************************)
(* SpecDecode: reading the slots of a chip that holds any byte in one.     *)
(***************************************************************************)
SlotInputs == -1 .. 8

InitDecode ==
    /\ \E slot \in 0 .. 7, b \in Byte :
          regs = Registers(96, 0, 0, 0, slot, b)
    /\ Fresh

NextDecode ==
    \/ Construct
    \/ \E slot \in SlotInputs : SeqGet(slot)

SpecDecode == InitDecode /\ [][NextDecode]_vars

\* C4: reading sequence[slot], slot in 0 .. 7, decodes the byte b the slot's
\* register holds: a Pause of duration (b & 0x7F) / 100.0 when bit 7 of b is
\* set, an Effect of id b when it is clear.
C4_DecodesEveryByte ==
    (ret.op = "sequence[]" /\ ret.slot \in 0 .. 7) =>
        LET b == regs[_DRV2605_REG_WAVESEQ1 + ret.slot]
        IN  /\ ret.exc = "none"
            /\ IF (b \div 128) % 2 = 1
               THEN /\ ret.value.kind = "Pause"
                    /\ Pause_duration(ret.value) = (b % 128) * TicksPerCs
               ELSE /\ ret.value.kind = "Effect"
                    /\ Effect_id(ret.value) = b

(***************************************************************************)
(* SpecRoundTrip: a program that constructs the controller, makes one      *)
(* Effect or Pause, writes it to a slot and reads slots back.              *)
(***************************************************************************)
EffectInputs == -1 .. 124
DurationInputs == -1 .. 127 * TicksPerCs + 1

NextRoundTrip ==
    \/ drv = "absent" /\ Construct
    \/ ret.op = "__init__" /\ \E id \in EffectInputs : NewEffect(id)
    \/ ret.op = "__init__" /\ \E d \in DurationInputs, up \in BOOLEAN : NewPause(d, up)
    \/ ret.op \in {"Effect", "Pause"} /\ \E slot \in 0 .. 7 : SeqSet(slot, obj)
    \/ ret.op \in {"sequence[]=", "sequence[]"} /\ \E slot \in 0 .. 7 : SeqGet(slot)

SpecRoundTrip == InitFilled /\ [][NextRoundTrip]_vars

\* C5: Effect(id), id in 0 .. 123, is an Effect of that id, and Pause(c / 100),
\* c in 0 .. 127, a Pause of that duration and of raw value 0x80 | c;
\* sequence[slot] = obj, slot in 0 .. 7, leaves the object's raw value in the
\* slot's register; and the read of sequence[slot] that follows returns an
\* Effect of the same id, or a Pause of the same duration.
C5_SlotRoundTrip ==
    [][/\ (ret'.op = "Effect" /\ ret'.arg.v \in 0 .. 123) =>
            /\ ret'.exc = "none"
            /\ obj'.kind = "Effect" /\ Effect_id(obj') = ret'.arg.v
       /\ (ret'.op = "Pause" /\ ret'.arg.v \in {c * TicksPerCs : c \in 0 .. 127}) =>
            /\ ret'.exc = "none"
            /\ obj'.kind = "Pause" /\ Pause_duration(obj') = ret'.arg.v
            /\ raw_value(obj') = 128 + ret'.arg.v \div TicksPerCs
       /\ (ret'.op = "sequence[]=" /\ ret'.arg.kind \in {"Effect", "Pause"}) =>
            /\ ret'.exc = "none"
            /\ regs'[_DRV2605_REG_WAVESEQ1 + ret'.slot] = raw_value(ret'.arg)
       /\ (ret.op = "sequence[]=" /\ ret.exc = "none"
             /\ ret'.op = "sequence[]" /\ ret'.slot = ret.slot) =>
            /\ ret'.exc = "none"
            /\ ret'.value.kind = ret.arg.kind
            /\ ret.arg.kind = "Effect" => Effect_id(ret'.value) = Effect_id(ret.arg)
            /\ ret.arg.kind = "Pause" =>
                  Pause_duration(ret'.value) = Pause_duration(ret.arg)
      ]_vars

\* C5's case: Pause(0.30), written to slot 3 as 0x9E, has been read back.
C5_Witness ==
    /\ obj = PauseObj(158)
    /\ regs[_DRV2605_REG_WAVESEQ1 + 3] = 158
    /\ ret.op = "sequence[]" /\ ret.slot = 3
    /\ ret.value.kind = "Pause"
    /\ Pause_duration(ret.value) = 30 * TicksPerCs

(***************************************************************************)
(* SpecArgs: the calls that take an argument, on valid and invalid ones.   *)
(***************************************************************************)
InitArgs ==
    /\ \E status \in {96, 160} :
          regs = Registers(status, 0, 0, 0, 0, 0)
    /\ Fresh

NextArgs ==
    \/ Construct
    \/ \E v \in {-1, 5, 8} : SetMode(v)
    \/ \E v \in {-1, 6, 7} : SetLibrary(v)
    \/ \E v \in {-128, -1, 256} : SetRealtime(v)
    \/ \E id \in {-1, 123, 124}, slot \in {-1, 7, 8} : SetWaveform(id, slot)
    \/ \E id \in {47} : NewEffect(id)
    \/ \E d \in {30 * TicksPerCs}, up \in BOOLEAN : NewPause(d, up)
    \/ \E slot \in {-1, 0, 8}, effect \in {obj, IntVal(47)} : SeqSet(slot, effect)
    \/ \E slot \in {-1, 0, 7, 8} : SeqGet(slot)

SpecArgs == InitArgs /\ [][NextArgs]_vars

(***************************************************************************)
(* Spec: the whole single-threaded program: every call of the driver that  *)
(* writes a register, every call on an Effect or a Pause, and the reads of *)
(* the slots.  The slot registers start with bytes a slot can be read      *)
(* from.                                                                   *)
(***************************************************************************)
Init ==
    /\ \E status \in {96, 160}, b \in {0, 255} :
          regs = Registers(status, 0, 0, 0, 7, b)
    /\ Fresh

Next ==
    \/ Construct
    \/ \E v \in {5, 8} : SetMode(v)
    \/ \E v \in {LIBRARY_TS2200A, 7} : SetLibrary(v)
    \/ \E v \in {0, 256} : SetRealtime(v)
    \/ \E id \in {-1, 123, 124}, slot \in {7, 8} : SetWaveform(id, slot)
    \/ UseERM
    \/ UseLRM
    \/ Play
    \/ Stop
    \/ \E id \in {-1, 47, 124} : NewEffect(id)
    \/ \E id \in {123, 124} : SetId(id)
    \/ \E d \in {-1, 30 * TicksPerCs, 127 * TicksPerCs + 1}, up \in BOOLEAN :
          NewPause(d, up)
    \/ \E d \in {-1, 127 * TicksPerCs}, up \in BOOLEAN : SetDuration(d, up)
    \/ \E slot \in {0, 8}, effect \in {obj, IntVal(47)} : SeqSet(slot, effect)
    \/ \E slot \in {0, 7, 8} : SeqGet(slot)

Spec == Init /\ [][Next]_vars

\* A call on the controller with an argument out of range or of the wrong type.
Invalid(call) ==
    \/ call.op = "mode=" /\ call.arg.v \notin 0 .. 7
    \/ call.op = "library=" /\ call.arg.v \notin 0 .. 6
    \/ call.op = "realtime_value=" /\ call.arg.v \notin -127 .. 255
    \/ call.op = "set_waveform"
         /\ (call.arg.v \notin 0 .. 123 \/ call.slot \notin 0 .. 7)
    \/ call.op = "sequence[]="
         /\ (call.slot \notin 0 .. 7 \/ call.arg.kind \notin {"Effect", "Pause"})
    \/ call.op = "sequence[]" /\ call.slot \notin 0 .. 7

\* C3: on a constructed controller, a call given an out-of-range or wrongly
\* typed argument fails, issues no register write and leaves every chip
\* register as it was.
C3_InvalidArgumentNoWrite ==
    [][Invalid(ret') =>
         /\ ret'.exc \in {"ValueError", "IndexError", "TypeError"}
         /\ wlog' = <<>>
         /\ regs' = regs
      ]_vars

\* C3's case: set_waveform(123, 8), a valid effect for a slot that does not
\* exist, has failed on a constructed controller.
C3_Witness ==
    /\ drv = "ready"
    /\ ret.op = "set_waveform" /\ ret.arg = IntVal(123) /\ ret.slot = 8
    /\ ret.exc = "ValueError"

\* A byte a slot register may hold: an effect id, or a pause.
SlotByte(b) == b \in 0 .. 123 \/ b \in 128 .. 255

\* C10: every byte the driver writes to a waveform-slot register is in
\* 0 .. 123 or 128 .. 255, an Effect's raw value is in 0 .. 123 and a Pause's
\* in 128 .. 255 whatever its setters were given, and so, the slot registers
\* having started with such bytes, reading sequence[slot] succeeds for every
\* slot in 0 .. 7 after any calls.
C10_SlotBytesReadable ==
    /\ \A i \in 1 .. Len(wlog) : wlog[i][1] \in SlotAddrs => SlotByte(wlog[i][2])
    /\ obj.kind = "Effect" => raw_value(obj) \in 0 .. 123
    /\ obj.kind = "Pause" => raw_value(obj) \in 128 .. 255
    /\ \A a \in SlotAddrs : SlotByte(regs[a])
    /\ drv = "ready" =>
          \A slot \in 0 .. 7 :
              Sequence_getitem(Machine(regs, BUFFER), slot).exc = "none"
    /\ (ret.op = "sequence[]" /\ ret.slot \in 0 .. 7) => ret.exc = "none"

\* C10's case: a Pause whose duration was set to 1.27 through the setter has
\* been written to slot 0, after a set to an invalid duration failed.
C10_Witness ==
    /\ drv = "ready"
    /\ ret.op = "sequence[]=" /\ ret.slot = 0 /\ ret.arg = PauseObj(255)
    /\ regs[_DRV2605_REG_WAVESEQ1] = 255
    /\ regs[_DRV2605_REG_WAVESEQ8] = 123
    /\ regs[_DRV2605_REG_GO] = 1

(***************************************************************************)
(* SpecConc: two DRV2605 instances, each driven by a thread of its own, so *)
(* that no instance is ever called by two threads at once.  Both instances *)
(* use the one class-level _BUFFER.  `with self._device` holds the lock of *)
(* the instance's I2C bus, which the two instances may or may not share.   *)
(* _read_u8 and _write_u8 run statement by statement; a bus transaction is *)
(* one step.                                                               *)
(***************************************************************************)
Instances == 1 .. 2
\* The registers the threads read and write, and the values they write.
ConcAddrs == {_DRV2605_REG_MODE, _DRV2605_REG_RTPIN}
ConcVals == {5, 7}

Idle == [pc |-> "idle", calls |-> 0, address |-> 0, val |-> 0,
         truth |-> 0, sent |-> <<>>, result |-> 0]

InitConc ==
    /\ regs = Registers(96, 0, 0, 0, 0, 0)
    /\ BUFFER = [i \in 0 .. 1 |-> 0]
    /\ drv = "absent"
    /\ obj = None
    /\ ret = [op |-> "none", slot |-> 0, arg |-> None, exc |-> "none", value |-> None]
    /\ wlog = <<>>
    /\ \E shared \in BOOLEAN :
          chips = [i \in Instances |->
                     [bus  |-> IF shared THEN 1 ELSE i,
                      regs |-> [a \in Addrs |-> IF a = _DRV2605_REG_RTPIN THEN i ELSE 0]]]
    /\ lock = [b \in Instances |-> 0]
    /\ thr = [t \in Instances |-> Idle]

AtRest(t) ==
    /\ thr[t].pc \in {"idle", "r_returned", "w_returned"}
    /\ thr[t].calls < MaxCalls

\* _read_u8(address): `with self._device as i2c:` takes the bus lock.
ReadEnter(t, address) ==
    /\ AtRest(t)
    /\ lock[chips[t].bus] = 0
    /\ lock' = [lock EXCEPT ![chips[t].bus] = t]
    /\ thr' = [thr EXCEPT ![t] = [Idle EXCEPT !.pc = "r_enter", !.calls = thr[t].calls + 1,
                                              !.address = address]]
    /\ UNCHANGED <<BUFFER, chips, seqvars>>

\* self._BUFFER[0] = address & 0xFF
ReadStore(t) ==
    /\ thr[t].pc = "r_enter"
    /\ BUFFER' = [BUFFER EXCEPT ![0] = And(thr[t].address, 255)]
    /\ thr' = [thr EXCEPT ![t].pc = "r_stored"]
    /\ UNCHANGED <<lock, chips, seqvars>>

\* i2c.write_then_readinto(self._BUFFER, self._BUFFER, out_end=1, in_end=1)
ReadTxn(t) ==
    /\ thr[t].pc = "r_stored"
    /\ BUFFER' = [BUFFER EXCEPT ![0] = chips[t].regs[BUFFER[0]]]
    /\ thr' = [thr EXCEPT ![t].pc = "r_txn",
                          ![t].sent = <<BUFFER[0]>>,
                          ![t].truth = chips[t].regs[thr[t].address]]
    /\ UNCHANGED <<lock, chips, seqvars>>

\* the end of the with block: the bus lock is released
ReadExit(t) ==
    /\ thr[t].pc = "r_txn"
    /\ lock' = [lock EXCEPT ![chips[t].bus] = 0]
    /\ thr' = [thr EXCEPT ![t].pc = "r_exit"]
    /\ UNCHANGED <<BUFFER, chips, seqvars>>

\* return self._BUFFER[0]
ReadReturn(t) ==
    /\ thr[t].pc = "r_exit"
    /\ thr' = [thr EXCEPT ![t].pc = "r_returned", ![t].result = BUFFER[0]]
    /\ UNCHANGED <<BUFFER, lock, chips, seqvars>>

\* _write_u8(address, val): `with self._device as i2c:` takes the bus lock.
WriteEnter(t, address, val) ==
    /\ AtRest(t)
    /\ lock[chips[t].bus] = 0
    /\ lock' = [lock EXCEPT ![chips[t].bus] = t]
    /\ thr' = [thr EXCEPT ![t] = [Idle EXCEPT !.pc = "w_enter", !.calls = thr[t].calls + 1,
                                              !.address = address, !.val = val]]
    /\ UNCHANGED <<BUFFER, chips, seqvars>>

\* self._BUFFER[0] = address & 0xFF
WriteStore0(t) ==
    /\ thr[t].pc = "w_enter"
    /\ BUFFER' = [BUFFER EXCEPT ![0] = And(thr[t].address, 255)]
    /\ thr' = [thr EXCEPT ![t].pc = "w_stored0"]
    /\ UNCHANGED <<lock, chips, seqvars>>

\* self._BUFFER[1] = val & 0xFF
WriteStore1(t) ==
    /\ thr[t].pc = "w_stored0"
    /\ BUFFER' = [BUFFER EXCEPT ![1] = And(thr[t].val, 255)]
    /\ thr' = [thr EXCEPT ![t].pc = "w_stored1"]
    /\ UNCHANGED <<lock, chips, seqvars>>

\* i2c.write(self._BUFFER, end=2)
WriteTxn(t) ==
    /\ thr[t].pc = "w_stored1"
    /\ chips' = [chips EXCEPT ![t].regs[BUFFER[0]] = BUFFER[1]]
    /\ thr' = [thr EXCEPT ![t].pc = "w_txn", ![t].sent = <<BUFFER[0], BUFFER[1]>>]
    /\ UNCHANGED <<BUFFER, lock, seqvars>>

\* the end of the with block, and of _write_u8
WriteExit(t) ==
    /\ thr[t].pc = "w_txn"
    /\ lock' = [lock EXCEPT ![chips[t].bus] = 0]
    /\ thr' = [thr EXCEPT ![t].pc = "w_returned"]
    /\ UNCHANGED <<BUFFER, chips, seqvars>>

NextConc ==
    \E t \in Instances :
        \/ \E a \in ConcAddrs : ReadEnter(t, a)
        \/ ReadStore(t)
        \/ ReadTxn(t)
        \/ ReadExit(t)
        \/ ReadReturn(t)
        \/ \E a \in ConcAddrs, v \in ConcVals : WriteEnter(t, a, v)
        \/ WriteStore0(t)
        \/ WriteStore1(t)
        \/ WriteTxn(t)
        \/ WriteExit(t)

SpecConc == InitConc /\ [][NextConc]_vars

\* C9: with each instance called by one thread at a time, every register
\* read returns the byte its own transaction read from the register it
\* addressed, and every register write sends its own (address, value) pair.
C9_OwnTransactionOnly ==
    \A t \in Instances :
        /\ thr[t].pc \in {"r_txn", "r_exit", "r_returned"} =>
              thr[t].sent = <<thr[t].address>>
        /\ thr[t].pc = "r_returned" => thr[t].result = thr[t].truth
        /\ thr[t].pc \in {"w_txn", "w_returned"} =>
              thr[t].sent = <<thr[t].address, thr[t].val>>

=============================================================================
